---- MODULE Spec2Model ----
(***************************************************************************)
(* A model of the health_connect acquisition pipeline:                     *)
(*   get_all_data.py    get_body_data, get_start_date_from_csv,            *)
(*                      append_data_to_csv and the __main__ script (sync)  *)
(*   clean_body_data.py clean_body_data                                    *)
(*                                                                         *)
(* A datetime is an integer number of ticks, TicksPerDay ticks to the day; *)
(* a date text ('%Y-%m-%d') is the decimal text of the day number.  Every  *)
(* CSV cell is a text; "" is the empty cell pandas reads and writes for a  *)
(* missing value.                                                          *)
(***************************************************************************)
EXTENDS Integers, Sequences, FiniteSets, TLC

\* ------------------------------------------------------------------ bounds
TicksPerDay == 2        \* resolution of the time of day
MaxPeriod == 2          \* periods '0d' .. 'MaxPeriod d' besides the script's '30d'
MaxChunks == 3          \* the longest fetch has this many chunks
MaxSyncs == 2           \* runs of the script in one behaviour
MaxNowDay == 2          \* the clock reads at most this day
MaxBatches == 2         \* append_data_to_csv calls in one behaviour
MaxRows == 3            \* rows of a raw store handed to clean_body_data
MaxBadRows == 2         \* rows of a malformed store handed to clean_body_data

\* ------------------------------------------------------- program constants
MainPeriod == 30        \* period='30d' of the script
DefaultStartDay == 0    \* datetime(year=2023, month=7, day=1), the day numbers' origin

\* ------------------------------------------------------------------- dates
timedelta(days) == days * TicksPerDay

\* datetime.strftime('%Y-%m-%d'): the date text of a datetime, time of day dropped
strftime(dt) == ToString(dt \div TicksPerDay)

LastDay == (MaxChunks + 1) * (MainPeriod + 1) + MaxNowDay + 2
DayNumbers == 0..LastDay

DateTexts == [d \in DayNumbers |-> ToString(d)]

\* the number a decimal text denotes, -1 when the text is no number
ParseInt(text) ==
    IF \E d \in DayNumbers : DateTexts[d] = text
    THEN CHOOSE d \in DayNumbers : DateTexts[d] = text
    ELSE -1

\* the day a date text denotes, -1 when the text is no date
ParseDay(text) == ParseInt(text)

\* pd.to_datetime of one cell raises on a text that is no date (the stores
\* modelled hold no empty date cell)
Unparseable_coerced(text) == FALSE

Unparseable(text) == ParseDay(text) = -1

\* pd.to_datetime of one parseable cell: midnight of its day
to_datetime(text) == ParseDay(text) * TicksPerDay

Min(a, b) == IF a <= b THEN a ELSE b

\* ----------------------------------------------------------------- periods
Digits == <<"0", "1", "2", "3", "4", "5", "6", "7", "8", "9">>
DigitValue(c) == (CHOOSE i \in 1..10 : Digits[i] = c) - 1

\* the period text of n days, n < 100: '7d', '30d'
PeriodText(n) ==
    IF n < 10 THEN <<Digits[n + 1], "d">>
    ELSE <<Digits[(n \div 10) + 1], Digits[(n % 10) + 1], "d">>

RECURSIVE int(_)
\* int() of a digit text
int(s) ==
    IF s = <<>> THEN 0
    ELSE 10 * int(SubSeq(s, 1, Len(s) - 1)) + DigitValue(s[Len(s)])

\* int(period[:-1])
PeriodDays(p) == int(SubSeq(p, 1, Len(p) - 1))

Periods == {PeriodText(n) : n \in (0..MaxPeriod) \cup {MainPeriod}}

\* ------------------------------------------------------------------- files
columns_order == <<"bmi", "date", "logId", "source", "time", "weight", "fat">>

NoFile == [exists |-> FALSE, lines |-> <<>>]
File(lines) == [exists |-> TRUE, lines |-> lines]

VARIABLES
    store,          \* the file body_data.csv
    cleaned,        \* the file clean_body_data.csv
    pc,             \* where the running call or script stands
    period,         \* get_body_data's period argument
    start_date,     \* get_body_data's arguments, datetimes
    end_date,
    current_date,   \* get_body_data's locals
    all_bodyweight,
    requests,       \* the get_bodyweight calls made, in order
    responses,      \* what each call returned or raised, in order
    errors,         \* the error messages printed by the except branch
    sleeps,         \* the time.sleep(1) calls of the running get_body_data
    raised,         \* the exception that ended the last call, "" for none
    syncs,          \* the runs of the script started
    batches,        \* the rows handed to append_data_to_csv, call by call
    failed          \* the days of the chunks that failed in finished runs

vars == <<store, cleaned, pc, period, start_date, end_date, current_date,
          all_bodyweight, requests, responses, errors, sleeps, raised,
          syncs, batches, failed>>

fetchVars == <<period, start_date, end_date, current_date, all_bodyweight,
               requests, responses, errors, sleeps>>

\* --------------------------------------------------------------- pandas
\* pd.read_csv: the first line names the columns, every other line is a row;
\* a file with no line at all raises EmptyDataError.
read_csv(file) ==
    IF file.lines = <<>>
    THEN [raised |-> "EmptyDataError", columns |-> <<>>, rows |-> <<>>]
    ELSE [raised |-> "", columns |-> Head(file.lines), rows |-> Tail(file.lines)]

\* the position of a column in a frame's columns, 0 when it is not one
ColumnIndex(columns, name) ==
    IF \E i \in 1..Len(columns) : columns[i] = name
    THEN CHOOSE i \in 1..Len(columns) : columns[i] = name
    ELSE 0

\* df['date'].max()
MinOf(S) == CHOOSE m \in S : \A x \in S : m <= x

MaxOf(S) == CHOOSE m \in S : \A x \in S : x <= m

\* pd.DataFrame(all_bodyweight).reindex(columns=columns_order): one row per
\* entry, its cells in the canonical order, empty where the entry has no
\* such key.
reindex(entries) ==
    [k \in 1..Len(entries) |->
        [c \in 1..Len(columns_order) |->
            IF columns_order[c] \in DOMAIN entries[k]
            THEN entries[k][columns_order[c]] ELSE ""]]

\* ------------------------------------------------------ clean_body_data
\* A numeric cell is <<n>>, a missing one (NaN, pd.NA) is <<>>.
NaN == <<>>

\* df.drop_duplicates(subset='date', keep='first') on the rows, col the
\* position of the date column: a row stays when no earlier row has its
\* date cell.
drop_duplicates_keep_last(rows, col) ==
    LET F[i \in 0..Len(rows)] ==
            IF i = 0 THEN <<>>
            ELSE IF \E j \in (i + 1)..Len(rows) : rows[j][col] = rows[i][col]
                 THEN F[i - 1] ELSE Append(F[i - 1], rows[i])
    IN  F[Len(rows)]

drop_duplicates(rows, col) ==
    LET F[i \in 0..Len(rows)] ==
            IF i = 0 THEN <<>>
            ELSE IF \E j \in 1..(i - 1) : rows[j][col] = rows[i][col]
                 THEN F[i - 1] ELSE Append(F[i - 1], rows[i])
    IN  F[Len(rows)]

\* a row put into rows already in date order, after the rows dated no later
Insert(sorted, row, col) ==
    LET k == Cardinality({i \in 1..Len(sorted) :
                 to_datetime(sorted[i][col]) <= to_datetime(row[col])})
    IN  SubSeq(sorted, 1, k) \o <<row>> \o SubSeq(sorted, k + 1, Len(sorted))

\* df.sort_values(by='date'): the rows in ascending order of their dates
sort_values(rows, col) ==
    LET F[i \in 0..Len(rows)] ==
            IF i = 0 THEN <<>> ELSE Insert(F[i - 1], rows[i], col)
    IN  F[Len(rows)]

\* pd.to_numeric(errors='coerce') of one cell
to_numeric(text) == IF ParseInt(text) = -1 THEN NaN ELSE <<ParseInt(text)>>

\* replace(0, pd.NA) of one cell
replace_zero_kept(v) == v

replace_zero(v) == IF v = <<0>> THEN NaN ELSE v

\* ffill of one column, given as a sequence of cells in row order
ffill_limit_one(column) ==
    [i \in 1..Len(column) |->
        IF column[i] # NaN THEN column[i]
        ELSE IF i > 1 THEN column[i - 1] ELSE NaN]

ffill(column) ==
    LET F[i \in 0..Len(column)] ==
            IF i = 0 THEN NaN
            ELSE IF column[i] # NaN THEN column[i] ELSE F[i - 1]
    IN  [i \in 1..Len(column) |-> F[i]]

\* to_csv of one numeric cell
NumericText(v) == IF v = NaN THEN "" ELSE ToString(v[1])

MeasurementColumns == {"bmi", "fat", "weight"}

\* What clean_body_data(input, output) does to the output file: the
\* exception raised with the file as it was, or the file written anew.
\* The frame keeps the input's columns; the date cells are written back as
\* date texts, the three measurement columns coerced, zero-free and
\* forward filled in date order.
clean_body_data(input, output) ==
    LET df == read_csv(input)
        date == ColumnIndex(df.columns, "date")
        Fail(e) == [raised |-> e, file |-> output]
    IN  IF ~input.exists THEN Fail("FileNotFoundError")
        ELSE IF df.raised # "" THEN Fail(df.raised)
        ELSE IF date = 0 THEN Fail("KeyError")
        ELSE LET unique == drop_duplicates(df.rows, date)
             IN  IF \E k \in 1..Len(unique) : Unparseable(unique[k][date])
                 THEN Fail("ValueError")
                 ELSE IF \E m \in MeasurementColumns : ColumnIndex(df.columns, m) = 0
                 THEN Fail("KeyError")
                 ELSE
                 LET sorted == sort_values(unique, date)
                     Filled(c) ==
                        ffill([k \in 1..Len(sorted) |->
                                  replace_zero(to_numeric(sorted[k][c]))])
                     Cell(k, c) ==
                        IF c = date THEN strftime(to_datetime(sorted[k][c]))
                        ELSE IF df.columns[c] \in MeasurementColumns
                             THEN NumericText(Filled(c)[k])
                             ELSE sorted[k][c]
                     out == [k \in 1..Len(sorted) |->
                                [c \in 1..Len(df.columns) |-> Cell(k, c)]]
                 IN  [raised |-> "", file |-> File(<<df.columns>> \o out)]

\* ------------------------------------------------- get_start_date_from_csv
default_start_date == timedelta(DefaultStartDay)

\* max_date + timedelta(days=1), the start a store with rows gives
start_after_same_day(max_date) == max_date

start_after(max_date) == max_date + timedelta(1)

\* The start date read from the store, or the exception the call raises.
get_start_date_from_csv(file) ==
    IF ~file.exists THEN [raised |-> "", value |-> default_start_date]
    ELSE LET df == read_csv(file)
             col == ColumnIndex(df.columns, "date")
             dates == {to_datetime(df.rows[k][col]) : k \in 1..Len(df.rows)}
         IN  IF df.raised # "" THEN [raised |-> df.raised, value |-> 0]
             ELSE IF df.rows = <<>> THEN [raised |-> "", value |-> default_start_date]
             ELSE IF col = 0 THEN [raised |-> "KeyError", value |-> 0]
             ELSE IF \E k \in 1..Len(df.rows) : Unparseable(df.rows[k][col])
                  THEN [raised |-> "ValueError", value |-> 0]
             ELSE [raised |-> "", value |-> start_after(MaxOf(dates))]

\* ------------------------------------------------------ append_data_to_csv
\* The file after append_data_to_csv(pd.DataFrame(entries), filename).
append_with_header(entries, file) ==
    File(file.lines \o <<columns_order>> \o reindex(entries))

append_data_to_csv(entries, file) ==
    IF file.exists
    THEN File(file.lines \o reindex(entries))
    ELSE File(<<columns_order>> \o reindex(entries))

\* ------------------------------------------------------------- the API
\* One weight entry of the API's response for a date.
Entry(dateText, id) ==
    [bmi |-> "22", date |-> dateText, logId |-> id, source |-> "API",
     time |-> "08:00:00", weight |-> "50"]

\* What get_bodyweight(base_date, end_date) can do: raise, answer without a
\* 'weight' key, or answer with entries dated inside the window (here: on
\* its first day, on its last day, both in either order, or none).
Responses(base, end) ==
    LET first == Entry(base, "1")
        last == Entry(end, "2")
        lists == {<<>>, <<first>>, <<last>>, <<first, last>>, <<last, first>>}
    IN  {[raises |-> TRUE, hasWeight |-> FALSE, weight |-> <<>>],
         [raises |-> FALSE, hasWeight |-> FALSE, weight |-> <<>>]}
        \cup {[raises |-> FALSE, hasWeight |-> TRUE, weight |-> w] : w \in lists}

\* ------------------------------------------------------- get_body_data
\* next_date = min(current_date + timedelta(days=int(period[:-1])), end_date)
next_date_unclamped == current_date + timedelta(PeriodDays(period))

next_date_no_advance ==
    Min(current_date + timedelta(PeriodDays(period)), end_date) - timedelta(1)

next_date_exclusive ==
    Min(current_date + timedelta(PeriodDays(period) - 1), end_date)

next_date == Min(current_date + timedelta(PeriodDays(period)), end_date)

\* The list after a response: each entry of body_data['weight'] appended when
\* the call returned and the key is there, the list as it was otherwise.
collect_prepend(r) ==
    IF ~r.raises /\ r.hasWeight THEN r.weight \o all_bodyweight ELSE all_bodyweight

collect(r) ==
    IF ~r.raises /\ r.hasWeight THEN all_bodyweight \o r.weight ELSE all_bodyweight

\* One iteration of the while loop: the request, the entries appended or
\* the error printed, the advance of current_date and the pause.
Request ==
    /\ pc = "loop"
    /\ current_date <= end_date
    /\ LET base == strftime(current_date)
           end == strftime(next_date)
       IN  /\ \E r \in Responses(base, end) :
                /\ responses' = Append(responses, r)
                /\ all_bodyweight' = collect(r)
                /\ errors' = IF r.raises
                             THEN Append(errors, [from |-> base, to |-> end])
                             ELSE errors
           /\ requests' = Append(requests, [base_date |-> base, end_date |-> end])
    /\ current_date' = next_date + timedelta(1)
    /\ sleeps' = sleeps + 1
    /\ UNCHANGED <<store, cleaned, pc, period, start_date, end_date, raised,
                   syncs, batches, failed>>

\* The loop condition fails: return all_bodyweight.
Return ==
    /\ pc = "loop"
    /\ current_date > end_date
    /\ pc' = "returned"
    /\ UNCHANGED <<store, cleaned, fetchVars, raised, syncs, batches, failed>>

\* get_body_data called with a start at midnight and any end, for each period.
FetchSpans(p) ==
    IF p <= MaxPeriod THEN -1..(MaxChunks * (p + 1) - 1)
    ELSE {-1, 0, p, p + 1, 65}

InitFetch ==
    /\ store = NoFile
    /\ cleaned = NoFile
    /\ pc = "loop"
    /\ period \in Periods
    /\ start_date \in {timedelta(d) : d \in {1, 2}}
    /\ \E span \in FetchSpans(PeriodDays(period)), tick \in 0..(TicksPerDay - 1) :
         end_date = start_date + timedelta(span) + tick
    /\ current_date = start_date
    /\ all_bodyweight = <<>>
    /\ requests = <<>>
    /\ responses = <<>>
    /\ errors = <<>>
    /\ sleeps = 0
    /\ raised = ""
    /\ syncs = 0
    /\ batches = <<>>
    /\ failed = {}

NextFetch == Request \/ Return

\* ------------------------------------------------------------ the script
\* what the clock can read: any time of any day from the default start on
Nows == {timedelta(d) + t : d \in DefaultStartDay..MaxNowDay, t \in 0..(TicksPerDay - 1)}

\* the days of the windows of the requests that raised
FailedDays ==
    UNION {ParseDay(requests[k].base_date)..ParseDay(requests[k].end_date) :
             k \in {i \in 1..Len(requests) : responses[i].raises}}

\* start_date = get_start_date_from_csv(); end_date = datetime.today(); then
\* get_body_data is entered.  An exception of get_start_date_from_csv ends
\* the run.  The clock never reads earlier than in the run before.
StartSync ==
    /\ pc = "idle"
    /\ syncs < MaxSyncs
    /\ syncs' = syncs + 1
    /\ LET got == get_start_date_from_csv(store)
       IN  IF got.raised # ""
           THEN /\ raised' = got.raised
                /\ UNCHANGED <<pc, start_date, end_date, current_date,
                               all_bodyweight, requests, responses, errors,
                               sleeps>>
           ELSE /\ raised' = ""
                /\ pc' = "loop"
                /\ start_date' = got.value
                /\ \E now \in Nows : now >= end_date /\ end_date' = now
                /\ current_date' = got.value
                /\ all_bodyweight' = <<>>
                /\ requests' = <<>>
                /\ responses' = <<>>
                /\ errors' = <<>>
                /\ sleeps' = 0
    /\ UNCHANGED <<store, cleaned, period, batches, failed>>

\* df = pd.DataFrame(all_bodyweight); append_data_to_csv(df, 'body_data.csv')
AppendResult ==
    /\ pc = "returned"
    /\ syncs > 0
    /\ store' = append_data_to_csv(all_bodyweight, store)
    /\ batches' = Append(batches, reindex(all_bodyweight))
    /\ failed' = failed \cup FailedDays
    /\ pc' = "idle"
    /\ UNCHANGED <<cleaned, fetchVars, raised, syncs>>

Init ==
    /\ store \in {NoFile, File(<<>>), File(<<columns_order>>)}
    /\ cleaned = NoFile
    /\ pc = "idle"
    /\ period \in Periods
    /\ start_date = default_start_date
    /\ end_date = default_start_date
    /\ current_date = default_start_date
    /\ all_bodyweight = <<>>
    /\ requests = <<>>
    /\ responses = <<>>
    /\ errors = <<>>
    /\ sleeps = 0
    /\ raised = ""
    /\ syncs = 0
    /\ batches = <<>>
    /\ failed = {}

Next == StartSync \/ Request \/ Return \/ AppendResult

Spec == Init /\ [][Next]_vars

SpecFetch == InitFetch /\ [][NextFetch]_vars

\* get_body_data runs in one thread with nothing to wait for but the API
\* call and the pause, which both come back: an enabled step is taken.
SpecFetchFair == SpecFetch /\ WF_vars(Request) /\ WF_vars(Return)

\* ----------------------------------------- append_data_to_csv on its own
EntryWithFat(dateText, id) ==
    [fat |-> "18", weight |-> "51", date |-> dateText, logId |-> id,
     bmi |-> "23", source |-> "Aria", time |-> "09:30:00"]

BatchEntries == {Entry("0", "1"), Entry("1", "2"), EntryWithFat("1", "3")}

\* the lists of entries a caller hands over, as a DataFrame
Batches == {<<>>} \cup {<<e>> : e \in BatchEntries}
              \cup {<<e1, e2>> : e1 \in BatchEntries, e2 \in BatchEntries}

AppendCall ==
    /\ Len(batches) < MaxBatches
    /\ \E entries \in Batches :
          /\ store' = append_data_to_csv(entries, store)
          /\ batches' = Append(batches, reindex(entries))
    /\ UNCHANGED <<cleaned, pc, fetchVars, raised, syncs, failed>>

\* the store is nonexistent or empty (a file with no content)
InitAppend ==
    /\ store \in {NoFile, File(<<>>)}
    /\ cleaned = NoFile
    /\ pc = "idle"
    /\ period = PeriodText(MainPeriod)
    /\ start_date = default_start_date
    /\ end_date = default_start_date
    /\ current_date = default_start_date
    /\ all_bodyweight = <<>>
    /\ requests = <<>>
    /\ responses = <<>>
    /\ errors = <<>>
    /\ sleeps = 0
    /\ raised = ""
    /\ syncs = 0
    /\ batches = <<>>
    /\ failed = {}

SpecAppend == InitAppend /\ [][AppendCall]_vars

\* ------------------------------------------------ clean_body_data on its own
\* the raw texts a measurement cell can hold: absent, zero, not a number,
\* and two real values
RawValues == <<"", "0", "x", "50", "60">>
CleanDays == 1..3

\* A raw row of the store: the k-th in the file carries logId k, its date
\* is any of the days, its weight any raw value, its bmi and fat raw values
\* that differ from it.
RawRow(k, day, v) ==
    <<RawValues[((v + 1) % Len(RawValues)) + 1], DateTexts[day], ToString(k),
      "API", "08:00:00", RawValues[v], RawValues[((v + 2) % Len(RawValues)) + 1]>>

RECURSIVE RawRowSeqs(_)
\* every store content of n rows
RawRowSeqs(n) ==
    IF n = 0 THEN {<<>>}
    ELSE {Append(rows, RawRow(n, day, v)) :
             rows \in RawRowSeqs(n - 1), day \in CleanDays,
             v \in 1..Len(RawValues)}

CleanCall ==
    /\ pc = "raw"
    /\ LET done == clean_body_data(store, cleaned)
       IN  /\ cleaned' = done.file
           /\ raised' = done.raised
    /\ pc' = "cleaned"
    /\ UNCHANGED <<store, fetchVars, syncs, batches, failed>>

InitClean ==
    /\ \E n \in 0..MaxRows : \E rows \in RawRowSeqs(n) :
          store = File(<<columns_order>> \o rows)
    /\ cleaned = NoFile
    /\ pc = "raw"
    /\ period = PeriodText(MainPeriod)
    /\ start_date = default_start_date
    /\ end_date = default_start_date
    /\ current_date = default_start_date
    /\ all_bodyweight = <<>>
    /\ requests = <<>>
    /\ responses = <<>>
    /\ errors = <<>>
    /\ sleeps = 0
    /\ raised = ""
    /\ syncs = 0
    /\ batches = <<>>
    /\ failed = {}

SpecClean == InitClean /\ [][CleanCall]_vars

\* clean_body_data run again, on the cleaned file it wrote:
\* clean_body_data('clean_body_data.csv', 'clean_body_data.csv')
CleanAgain ==
    /\ pc = "cleaned"
    /\ LET done == clean_body_data(cleaned, cleaned)
       IN  /\ cleaned' = done.file
           /\ raised' = done.raised
    /\ pc' = "recleaned"
    /\ UNCHANGED <<store, fetchVars, syncs, batches, failed>>

NextReclean == CleanCall \/ CleanAgain

SpecReclean == InitClean /\ [][NextReclean]_vars

\* ------------------------------------- clean_body_data on malformed data
\* date cells that are no date
GarbageDates == {"x", "not-a-date"}

\* a line without its c-th cell
DropCell(line, c) == SubSeq(line, 1, c - 1) \o SubSeq(line, c + 1, Len(line))

\* the store contents of n rows that are malformed: the date column is
\* missing from the header and the rows, or one row's date is no date
MalformedStores(n) ==
    LET col == ColumnIndex(columns_order, "date")
    IN  {File(<<DropCell(columns_order, col)>>
              \o [k \in 1..n |-> DropCell(rows[k], col)]) : rows \in RawRowSeqs(n)}
        \cup {File(<<columns_order>> \o [rows EXCEPT ![i][col] = g]) :
                 rows \in RawRowSeqs(n), i \in 1..n, g \in GarbageDates}

\* the cleaned file before the call: none, or what an earlier call wrote
\* from a store that was well formed
PriorCleaned ==
    {NoFile}
    \cup {clean_body_data(File(<<columns_order>> \o rows), NoFile).file :
             rows \in RawRowSeqs(0) \cup {<<RawRow(1, 1, 4)>>,
                                          <<RawRow(1, 2, 4), RawRow(2, 1, 2)>>}}

InitMalformed ==
    /\ \E n \in 0..MaxBadRows : store \in MalformedStores(n)
    /\ cleaned \in PriorCleaned
    /\ pc = "raw"
    /\ period = PeriodText(MainPeriod)
    /\ start_date = default_start_date
    /\ end_date = default_start_date
    /\ current_date = default_start_date
    /\ all_bodyweight = <<>>
    /\ requests = <<>>
    /\ responses = <<>>
    /\ errors = <<>>
    /\ sleeps = 0
    /\ raised = ""
    /\ syncs = 0
    /\ batches = <<>>
    /\ failed = {}

SpecMalformed == InitMalformed /\ [][CleanCall]_vars

\* ------------------------------------------------- claims on get_body_data
StartDay == start_date \div TicksPerDay
EndDay == end_date \div TicksPerDay
ChunkDays == PeriodDays(period)

\* the calendar days of the k-th request's window [base_date, end_date]
Window(k) == ParseDay(requests[k].base_date)..ParseDay(requests[k].end_date)
Requested == UNION {Window(k) : k \in 1..Len(requests)}

WindowsDisjoint ==
    \A i, j \in 1..Len(requests) : i # j => Window(i) \cap Window(j) = {}

\* C1: the windows of the requests get_body_data issues are pairwise disjoint
\* and never empty, and when it returns their union is exactly the calendar
\* range [start, end]: no date is requested twice, none is left out.
C1_WindowsPartitionRange ==
    /\ WindowsDisjoint
    /\ \A k \in 1..Len(requests) : Window(k) # {}
    /\ Requested \subseteq StartDay..EndDay
    /\ pc = "returned" => Requested = StartDay..EndDay

C1_Witness ==
    /\ pc = "returned"
    /\ Len(requests) = 3
    /\ ChunkDays = 2
    /\ EndDay - StartDay = 7
    /\ Requested = StartDay..EndDay

\* C2 as stated: every chunk has at most chunk_size_days days and the k-th
\* chunk (k from 0) begins at start + k * chunk_size_days.
C2_Original ==
    \A k \in 1..Len(requests) :
        /\ Cardinality(Window(k)) <= ChunkDays
        /\ ParseDay(requests[k].base_date) = StartDay + (k - 1) * ChunkDays

\* C2 amended: every chunk has at most chunk_size_days + 1 days (exactly that
\* many unless it is the last), the k-th chunk (k from 0) begins at
\* start + k * (chunk_size_days + 1); for chunk size 30 and end - start = 65
\* days the call issues exactly 3 requests, for [start, start+30],
\* [start+31, start+61] and [start+62, end].
C2_ChunksOfPeriodPlusOne ==
    /\ \A k \in 1..Len(requests) :
          /\ ParseDay(requests[k].base_date) = StartDay + (k - 1) * (ChunkDays + 1)
          /\ Cardinality(Window(k)) <= ChunkDays + 1
          /\ k < Len(requests) => Cardinality(Window(k)) = ChunkDays + 1
    /\ (pc = "returned" /\ ChunkDays = 30 /\ EndDay - StartDay = 65) =>
          /\ Len(requests) = 3
          /\ Window(1) = StartDay..(StartDay + 30)
          /\ Window(2) = (StartDay + 31)..(StartDay + 61)
          /\ Window(3) = (StartDay + 62)..EndDay

C2_Witness ==
    /\ pc = "returned"
    /\ ChunkDays = 30
    /\ EndDay - StartDay = 65
    /\ Len(requests) = 3

RECURSIVE Concat(_)
\* the concatenation of a sequence of sequences
Concat(ss) == IF ss = <<>> THEN <<>> ELSE Head(ss) \o Concat(Tail(ss))

\* the subsequence of s at the indices satisfying Keep
SelectIdx(s, Keep(_)) ==
    LET F[i \in 0..Len(s)] ==
            IF i = 0 THEN <<>>
            ELSE IF Keep(i) THEN Append(F[i - 1], s[i]) ELSE F[i - 1]
    IN  F[Len(s)]

Succeeded(k) == ~responses[k].raises
Failed(k) == responses[k].raises

\* C3: a request that raises never aborts the rest of the range: when
\* get_body_data returns, whatever chunks failed, every chunk of the range
\* was requested exactly once (no retry), the result is the concatenation,
\* in chunk order and API order, of the entries of exactly the successful
\* chunks, and exactly one error was reported per failed chunk, for its window.
C3_FailureSkipsOnlyItsChunk ==
    pc = "returned" =>
        /\ Len(responses) = Len(requests)
        /\ Requested = StartDay..EndDay
        /\ WindowsDisjoint
        /\ all_bodyweight =
             Concat(SelectIdx([k \in 1..Len(responses) |-> responses[k].weight],
                              Succeeded))
        /\ errors =
             SelectIdx([k \in 1..Len(requests) |->
                           [from |-> requests[k].base_date,
                            to |-> requests[k].end_date]], Failed)

C3_Witness ==
    /\ pc = "returned"
    /\ Len(responses) = 3
    /\ Succeeded(1) /\ Failed(2) /\ Succeeded(3)
    /\ Len(responses[1].weight) = 2
    /\ all_bodyweight = responses[1].weight \o responses[3].weight
    /\ Len(all_bodyweight) = 4
    /\ Len(errors) = 1


\* ------------------------------------------------------ claims on the store
\* the records of a store file: its lines after the header line
Records(file) == IF Len(file.lines) > 1 THEN Tail(file.lines) ELSE <<>>

\* the day of a record's date cell (the second column)
RecordDay(row) == ParseDay(row[2])

\* the store's extent: the latest day of its records, -1 when it has none
ExtentDay(file) ==
    LET days == {RecordDay(Records(file)[k]) : k \in 1..Len(Records(file))}
    IN  IF days = {} THEN -1 ELSE CHOOSE m \in days : \A d \in days : d <= m

IsPrefix(s, t) == Len(s) <= Len(t) /\ SubSeq(t, 1, Len(s)) = s

\* a run of the script has read its start and end and not yet appended
Running == syncs > 0 /\ pc \in {"loop", "returned"}

\* C4: when the computed start is later than the end (the store's extent is
\* today or later), the run issues no request, get_body_data returns an
\* empty list, no exception is raised and the append leaves the store file
\* exactly as it was.
C4_NoOpSync ==
    [][(Running /\ start_date > end_date) =>
          /\ requests = <<>> /\ requests' = <<>>
          /\ all_bodyweight = <<>> /\ all_bodyweight' = <<>>
          /\ raised = "" /\ raised' = ""
          /\ store' = store]_vars

C4_Witness ==
    /\ pc = "idle"
    /\ syncs = 2
    /\ start_date > end_date
    /\ ExtentDay(store) >= end_date \div TicksPerDay
    /\ requests = <<>>
    /\ Len(batches) = 2
    /\ batches[2] = <<>>
    /\ store = File(<<columns_order>> \o batches[1])

\* C5: the store is append-only: across every step the file stays, its
\* lines remain an unmodified prefix of the new lines, and every record a
\* run adds is dated strictly after the latest record the store held.
C5_AppendOnly ==
    [][/\ store.exists => store'.exists
       /\ IsPrefix(store.lines, store'.lines)
       /\ IsPrefix(Records(store), Records(store'))
       /\ Records(store) # <<>> =>
            \A k \in (Len(Records(store)) + 1)..Len(Records(store')) :
                RecordDay(Records(store')[k]) > ExtentDay(store)]_vars

C5_Witness ==
    /\ pc = "idle"
    /\ syncs = 2
    /\ Len(batches) = 2
    /\ batches[1] # <<>>
    /\ Len(batches[2]) = 2
    /\ errors # <<>>
    /\ store = File(<<columns_order>> \o batches[1] \o batches[2])

\* C6 as stated: after any sequence of append_data_to_csv calls on a store
\* that was nonexistent or empty, the file is one header line followed by
\* the rows of all batches in call order.
C6_Original ==
    batches # <<>> => store = File(<<columns_order>> \o Concat(batches))

\* C7 as stated: the start date of a run is the store's maximum date plus
\* one day when the store holds a record and the default start date when it
\* is nonexistent or empty, and get_start_date_from_csv raises no error.
C7_Original ==
    /\ raised = ""
    /\ (pc = "loop" /\ requests = <<>> /\ syncs > 0) =>
          start_date = IF Records(store) = <<>> THEN timedelta(DefaultStartDay)
                       ELSE timedelta(ExtentDay(store) + 1)

\* C8 as stated: no day of a chunk that failed in an earlier run is
\* requested again by a later run.
C8_Original == Running => Requested \cap failed = {}

\* C8 amended: a day of a chunk that failed in an earlier run is never
\* requested again once the store holds a record dated on or after that
\* day: every later run starts past the latest stored date.  (The extent
\* is the latest stored date, not the requested end: a failed chunk with no
\* later record stored is requested again.)
C8_FailedBehindExtentNeverRefetched ==
    Running =>
        \A d \in failed :
            (Records(store) # <<>> /\ d <= ExtentDay(store)) =>
                /\ d \notin Requested
                /\ d < start_date \div TicksPerDay

C8_Witness ==
    /\ pc = "returned"
    /\ syncs = 2
    /\ failed # {}
    /\ \A d \in failed : d < ExtentDay(store)
    /\ requests # <<>>
    /\ Requested \cap failed = {}

\* ---------------------------------------------- claims on clean_body_data
RawIn == Records(store)
CleanOut == Records(cleaned)
DateColumn == ColumnIndex(columns_order, "date")
KeptColumns == {ColumnIndex(columns_order, c) : c \in {"logId", "source", "time"}}
FilledColumns == {ColumnIndex(columns_order, c) : c \in MeasurementColumns}

\* the first row of the raw input, in file order, that carries the date of
\* the k-th cleaned row
FirstOccurrence(k) ==
    CHOOSE i \in 1..Len(RawIn) :
        /\ ParseDay(RawIn[i][DateColumn]) = ParseDay(CleanOut[k][DateColumn])
        /\ \A j \in 1..(i - 1) :
              ParseDay(RawIn[j][DateColumn]) # ParseDay(CleanOut[k][DateColumn])

\* C9: the cleaned output has exactly one record for every date of the raw
\* input, in strictly ascending date order, and the record of a date is its
\* first occurrence in the raw input's own order, with logId, source and
\* time unchanged.
C9_OnePerDateFirstOccurrence ==
    pc = "cleaned" =>
        /\ raised = ""
        /\ cleaned.exists
        /\ Head(cleaned.lines) = columns_order
        /\ {ParseDay(CleanOut[k][DateColumn]) : k \in 1..Len(CleanOut)}
             = {ParseDay(RawIn[i][DateColumn]) : i \in 1..Len(RawIn)}
        /\ \A k \in 1..(Len(CleanOut) - 1) :
              ParseDay(CleanOut[k][DateColumn]) < ParseDay(CleanOut[k + 1][DateColumn])
        /\ \A k \in 1..Len(CleanOut) : \A c \in KeptColumns :
              CleanOut[k][c] = RawIn[FirstOccurrence(k)][c]

C9_Witness ==
    /\ pc = "cleaned"
    /\ Len(RawIn) = 3
    /\ RawIn[1][DateColumn] = "2" /\ RawIn[1][6] = "50"
    /\ RawIn[2][DateColumn] = "2" /\ RawIn[2][6] = "60"
    /\ RawIn[3][DateColumn] = "1" /\ RawIn[3][6] = "50"
    /\ Len(CleanOut) = 2
    /\ CleanOut[1][DateColumn] = "1" /\ CleanOut[1][3] = "3"
    /\ CleanOut[2][DateColumn] = "2" /\ CleanOut[2][3] = "1" /\ CleanOut[2][6] = "50"

\* a raw cell that is a real reading: numeric and not zero
Real(text) == ParseInt(text) # -1 /\ ParseInt(text) # 0

\* the raw cell behind the k-th cleaned row in column c
RawCell(k, c) == RawIn[FirstOccurrence(k)][c]

\* C10: in the cleaned output, for each of weight, bmi and fat on its own, a
\* real non-zero reading is kept as it is, and a cell that was 0,
\* non-numeric or absent holds the reading of the nearest earlier date that
\* has a real one, and stays missing when no earlier date has one.
C10_ForwardFill ==
    pc = "cleaned" =>
        \A c \in FilledColumns : \A k \in 1..Len(CleanOut) :
            LET earlier == {j \in 1..(k - 1) : Real(RawCell(j, c))}
                nearest == CHOOSE j \in earlier : \A i \in earlier : i <= j
            IN  IF Real(RawCell(k, c))
                THEN ParseInt(CleanOut[k][c]) = ParseInt(RawCell(k, c))
                ELSE IF earlier = {} THEN CleanOut[k][c] = ""
                ELSE ParseInt(CleanOut[k][c]) = ParseInt(RawCell(nearest, c))

\* weights [50, 0, missing] on d1 < d2 < d3 become [50, 50, 50], while the
\* bmi column's leading gap stays missing
C10_Witness ==
    /\ pc = "cleaned"
    /\ Len(RawIn) = 3
    /\ Len(CleanOut) = 3
    /\ [k \in 1..3 |-> RawIn[k][DateColumn]] = <<"1", "2", "3">>
    /\ [k \in 1..3 |-> RawIn[k][6]] = <<"50", "0", "">>
    /\ [k \in 1..3 |-> RawIn[k][1]] = <<"", "50", "x">>
    /\ [k \in 1..3 |-> CleanOut[k][6]] = <<"50", "50", "50">>
    /\ [k \in 1..3 |-> CleanOut[k][1]] = <<"", "50", "50">>

\* C11: cleaning is idempotent: clean_body_data run on its own output
\* raises nothing and writes the same cleaned series again, row for row and
\* cell for cell.
C11_CleanIdempotent ==
    [][(pc = "cleaned" /\ pc' = "recleaned") =>
          /\ raised' = ""
          /\ cleaned' = cleaned]_vars

\* a raw store with a duplicate date, out of date order, with a zero and a
\* gap to fill, cleaned twice
C11_Witness ==
    /\ pc = "recleaned"
    /\ Len(RawIn) = 3
    /\ [k \in 1..3 |-> RawIn[k][DateColumn]] = <<"3", "1", "3">>
    /\ [k \in 1..3 |-> RawIn[k][6]] = <<"0", "50", "60">>
    /\ Len(CleanOut) = 2
    /\ [k \in 1..2 |-> CleanOut[k][DateColumn]] = <<"1", "3">>
    /\ [k \in 1..2 |-> CleanOut[k][6]] = <<"50", "50">>
    /\ [k \in 1..2 |-> CleanOut[k][1]] = <<"", "50">>

\* C12: on malformed stored data (the date column missing, or a date that
\* does not parse) clean_body_data raises and writes nothing: the cleaned
\* file is as it was before the call, absent if it was absent and with its
\* prior content if an earlier call had written it.
C12_MalformedIsFatalNoOutput ==
    [][(pc = "raw" /\ pc' = "cleaned") =>
          /\ raised' \in {"KeyError", "ValueError"}
          /\ cleaned' = cleaned]_vars

\* an unparseable date in the second row, with a cleaned file of two rows
\* from an earlier run: the call raised and the file still has them
C12_Witness ==
    /\ pc = "cleaned"
    /\ raised = "ValueError"
    /\ Len(RawIn) = 2
    /\ RawIn[1][DateColumn] = "1"
    /\ RawIn[2][DateColumn] \in GarbageDates
    /\ cleaned.exists
    /\ Len(CleanOut) = 2
    /\ [k \in 1..2 |-> CleanOut[k][DateColumn]] = <<"1", "2">>

\* the date column missing from the store, no cleaned file before: the
\* call raised and there is still none
C12_WitnessNoColumn ==
    /\ pc = "cleaned"
    /\ raised = "KeyError"
    /\ ColumnIndex(Head(store.lines), "date") = 0
    /\ Len(RawIn) = 2
    /\ cleaned = NoFile

\* C13: for every period of 0 days or more and whatever requests fail, the
\* chunk loop of get_body_data ends after finitely many requests: every
\* iteration moves current_date forward by at least one day and is followed
\* by one pause, the last iteration included, and the call returns.
C13_LoopTerminates ==
    /\ <>(pc = "returned")
    /\ [](sleeps = Len(requests))
    /\ [][requests' # requests =>
            /\ current_date <= end_date
            /\ current_date' >= current_date + timedelta(1)
            /\ Len(requests') = Len(requests) + 1
            /\ sleeps' = sleeps + 1]_vars

\* a call with period '0d' over three days, its last request failing,
\* has returned after three requests and three pauses
C13_Witness ==
    /\ pc = "returned"
    /\ ChunkDays = 0
    /\ Len(requests) = 3
    /\ Failed(3)
    /\ sleeps = 3
    /\ current_date > end_date

====
